---- MODULE Spec2Model ----
(***************************************************************************)
(* The interaction state machine of streamlit_app.py: the session state    *)
(* (board, move_history, mode, selected_square, camera), and one action    *)
(* per widget event (board click, 2D/3D, NEW, UNDO, the six camera         *)
(* buttons).  The rules engine (python-chess) is modelled by what the      *)
(* calls of the script do: legal_moves, push, pop, piece_at, turn.         *)
(*                                                                         *)
(* Environment assumption: one widget event is delivered to one script     *)
(* run, and an action is that whole run (the handler up to st.rerun() or   *)
(* to the end of the script).                                              *)
(***************************************************************************)
EXTENDS Integers, Sequences, FiniteSets, TLC

VARIABLES board, move_history, mode, selected_square,
          camera_theta, camera_phi, camera_distance, click_data,
          event, played

\* The session state of the script (st.session_state), lines 41-56.
session == <<board, move_history, mode, selected_square,
             camera_theta, camera_phi, camera_distance, click_data>>

\* event: the widget event handled last and the branch its handler took.
\* played: for each ply on the board, the position and the history that
\* held just before it was applied (bookkeeping for the undo claims).
vars == <<board, move_history, mode, selected_square,
          camera_theta, camera_phi, camera_distance, click_data, event, played>>

-----------------------------------------------------------------------------
(* Bounds of the model *)

\* A click applies a move only while fewer than MaxPlies plies are on the board.
MaxPlies == 9

\* In the camera specification a click applies a move only while fewer than
\* MaxCamPlies plies are on the board.
MaxCamPlies == 1

-----------------------------------------------------------------------------
(* python-chess: squares, pieces, moves *)

PAWN == 1
KNIGHT == 2
BISHOP == 3
ROOK == 4
QUEEN == 5
KING == 6

WHITE == TRUE
BLACK == FALSE

\* Python's None, for a square and for a promotion.
None == 0 - 1

SQUARES == 0 .. 63

square(file, rank) == rank * 8 + file
square_file(sq) == sq % 8
square_rank(sq) == sq \div 8

FILE_NAMES == <<"a", "b", "c", "d", "e", "f", "g", "h">>
RANK_NAMES == <<"1", "2", "3", "4", "5", "6", "7", "8">>

square_name(sq) == FILE_NAMES[square_file(sq) + 1] \o RANK_NAMES[square_rank(sq) + 1]

SQUARE_NAMES == [sq \in SQUARES |-> square_name(sq)]

\* chess.parse_square: SQUARE_NAMES.index(name); ValueError when absent.
SquareNameSet == {SQUARE_NAMES[sq] : sq \in SQUARES}
SQUARE_INDEX == [name \in SquareNameSet |-> CHOOSE sq \in SQUARES : SQUARE_NAMES[sq] = name]
IsSquareName(name) == name \in SquareNameSet
parse_square(name) == SQUARE_INDEX[name]

\* piece_at gives a Piece (piece_type, color) or None.  A piece is held as
\* one number: its piece_type, plus 8 for a black piece; no piece is 0.
NoPiece == 0
Piece(t, c) == IF c THEN t ELSE t + 8
piece_type(p) == p % 8
piece_color(p) == p < 8

Move(from, to, promo) == [from_square |-> from, to_square |-> to, promotion |-> promo]

PROMOTION_LETTER(p) ==
  CASE p = QUEEN -> "q" [] p = ROOK -> "r" [] p = BISHOP -> "b"
    [] p = KNIGHT -> "n" [] OTHER -> ""

\* Move.uci(): from-square, to-square and the promotion letter, if any.
uci(m) == square_name(m.from_square) \o square_name(m.to_square)
            \o PROMOTION_LETTER(m.promotion)

BACK_RANK == <<ROOK, KNIGHT, BISHOP, QUEEN, KING, BISHOP, KNIGHT, ROOK>>

\* chess.Board(): the starting position.
StartPieces ==
  [sq \in SQUARES |->
     CASE square_rank(sq) = 0 -> Piece(BACK_RANK[square_file(sq) + 1], WHITE)
       [] square_rank(sq) = 1 -> Piece(PAWN, WHITE)
       [] square_rank(sq) = 6 -> Piece(PAWN, BLACK)
       [] square_rank(sq) = 7 -> Piece(BACK_RANK[square_file(sq) + 1], BLACK)
       [] OTHER -> NoPiece]

\* The rook squares that still carry a castling right.
StartCastling == {square(0, 0), square(7, 0), square(0, 7), square(7, 7)}

NewBoard ==
  [pieces |-> StartPieces, turn |-> WHITE, castling_rights |-> StartCastling,
   ep_square |-> None, move_stack |-> <<>>, stack |-> <<>>]

\* The position of a board: what the rules depend on, without the stacks.
Position(b) ==
  [pieces |-> b.pieces, turn |-> b.turn, castling_rights |-> b.castling_rights,
   ep_square |-> b.ep_square]

piece_at(b, sq) == b.pieces[sq]

OnBoard(f, r) == f \in 0 .. 7 /\ r \in 0 .. 7

KNIGHT_DELTAS == {<<1, 2>>, <<2, 1>>, <<2, -1>>, <<1, -2>>,
                  <<-1, -2>>, <<-2, -1>>, <<-2, 1>>, <<-1, 2>>}
KING_DELTAS == {<<1, 0>>, <<1, 1>>, <<0, 1>>, <<-1, 1>>,
                <<-1, 0>>, <<-1, -1>>, <<0, -1>>, <<1, -1>>}
ROOK_DELTAS == {<<1, 0>>, <<0, 1>>, <<-1, 0>>, <<0, -1>>}
BISHOP_DELTAS == {<<1, 1>>, <<-1, 1>>, <<-1, -1>>, <<1, -1>>}

\* The first occupied square from (f, r) in direction d, or None.
RECURSIVE RayFirst(_, _, _, _)
RayFirst(pieces, f, r, d) ==
  LET nf == f + d[1]
      nr == r + d[2]
  IN  IF ~OnBoard(nf, nr) THEN None
      ELSE IF pieces[square(nf, nr)] # NoPiece THEN square(nf, nr)
      ELSE RayFirst(pieces, nf, nr, d)

\* The empty squares from (f, r) in direction d, and the first occupied one.
RECURSIVE RaySquares(_, _, _, _)
RaySquares(pieces, f, r, d) ==
  LET nf == f + d[1]
      nr == r + d[2]
  IN  IF ~OnBoard(nf, nr) THEN {}
      ELSE IF pieces[square(nf, nr)] # NoPiece THEN {square(nf, nr)}
      ELSE {square(nf, nr)} \cup RaySquares(pieces, nf, nr, d)

StepSquares(f, r, deltas) ==
  {square(f + d[1], r + d[2]) : d \in {e \in deltas : OnBoard(f + e[1], r + e[2])}}

\* Board.is_attacked_by(color, sq)
is_attacked_by(pieces, color, sq) ==
  LET f == square_file(sq)
      r == square_rank(sq)
      pr == IF color = WHITE THEN r - 1 ELSE r + 1
      slider(deltas, t) ==
        \E d \in deltas :
          LET h == RayFirst(pieces, f, r, d)
          IN  /\ h # None
              /\ piece_color(pieces[h]) = color
              /\ piece_type(pieces[h]) \in {t, QUEEN}
  IN  \/ \E s \in StepSquares(f, r, KNIGHT_DELTAS) : pieces[s] = Piece(KNIGHT, color)
      \/ \E s \in StepSquares(f, r, KING_DELTAS) : pieces[s] = Piece(KING, color)
      \/ \E s \in StepSquares(f, pr, {<<-1, 0>>, <<1, 0>>}) : pieces[s] = Piece(PAWN, color)
      \/ slider(ROOK_DELTAS, ROOK)
      \/ slider(BISHOP_DELTAS, BISHOP)

king(pieces, color) == CHOOSE sq \in SQUARES : pieces[sq] = Piece(KING, color)

\* The pieces after move m of the side to move (Board.push, the board part).
PushPieces(b, m) ==
  LET from == m.from_square
      to == m.to_square
      p == b.pieces[from]
      dir == IF piece_color(p) = WHITE THEN 1 ELSE 0 - 1
      br == square_rank(from)
      placed == IF m.promotion # None THEN Piece(m.promotion, piece_color(p)) ELSE p
      is_ep == /\ piece_type(p) = PAWN
               /\ to = b.ep_square
               /\ square_file(to) # square_file(from)
               /\ b.pieces[to] = NoPiece
      is_castling == piece_type(p) = KING /\ square_file(to) - square_file(from) \in {2, 0 - 2}
      moved == [b.pieces EXCEPT ![from] = NoPiece, ![to] = placed]
  IN  IF is_ep THEN [moved EXCEPT ![to - 8 * dir] = NoPiece]
      ELSE IF is_castling /\ square_file(to) = 6
        THEN [moved EXCEPT ![square(7, br)] = NoPiece, ![square(5, br)] = Piece(ROOK, piece_color(p))]
      ELSE IF is_castling
        THEN [moved EXCEPT ![square(0, br)] = NoPiece, ![square(3, br)] = Piece(ROOK, piece_color(p))]
      ELSE moved

\* Board.push(move): save the position, apply the move, hand over the turn.
push(b, m) ==
  LET from == m.from_square
      to == m.to_square
      p == b.pieces[from]
      back == {sq \in SQUARES : square_rank(sq) = (IF piece_color(p) = WHITE THEN 0 ELSE 7)}
      rights == (b.castling_rights \ {from, to}) \
                  (IF piece_type(p) = KING THEN back ELSE {})
      ep == IF piece_type(p) = PAWN /\ to - from = 16 /\ square_rank(from) = 1 THEN from + 8
            ELSE IF piece_type(p) = PAWN /\ from - to = 16 /\ square_rank(from) = 6 THEN from - 8
            ELSE None
  IN  [pieces |-> PushPieces(b, m), turn |-> ~b.turn, castling_rights |-> rights,
       ep_square |-> ep, move_stack |-> Append(b.move_stack, m),
       stack |-> Append(b.stack, Position(b))]

\* Board.pop(): drop the last move and restore the position saved by its push.
pop(b) ==
  LET saved == b.stack[Len(b.stack)]
  IN  [pieces |-> saved.pieces, turn |-> saved.turn,
       castling_rights |-> saved.castling_rights, ep_square |-> saved.ep_square,
       move_stack |-> SubSeq(b.move_stack, 1, Len(b.move_stack) - 1),
       stack |-> SubSeq(b.stack, 1, Len(b.stack) - 1)]

PROMOTION_PIECES == {QUEEN, ROOK, BISHOP, KNIGHT}

\* The pseudo-legal moves of the piece on `from` (side to move only).
PseudoLegalFrom(b, from) ==
  LET p == b.pieces[from]
      f == square_file(from)
      r == square_rank(from)
      own(sq) == b.pieces[sq] # NoPiece /\ piece_color(b.pieces[sq]) = b.turn
      enemy(sq) == b.pieces[sq] # NoPiece /\ piece_color(b.pieces[sq]) # b.turn
      plain(targets) == {Move(from, t, None) : t \in {s \in targets : ~own(s)}}
      rays(deltas) == UNION {RaySquares(b.pieces, f, r, d) : d \in deltas}
      dir == IF b.turn = WHITE THEN 1 ELSE 0 - 1
      first == IF b.turn = WHITE THEN 1 ELSE 6
      last == IF b.turn = WHITE THEN 7 ELSE 0
      one == square(f, r + dir)
      pushes == IF b.pieces[one] # NoPiece THEN {}
                ELSE IF r = first /\ b.pieces[square(f, r + 2 * dir)] = NoPiece
                  THEN {one, square(f, r + 2 * dir)}
                ELSE {one}
      captures == {t \in StepSquares(f, r + dir, {<<-1, 0>>, <<1, 0>>}) :
                     enemy(t) \/ (t = b.ep_square /\ b.pieces[t] = NoPiece)}
      pawn == UNION {IF square_rank(t) = last
                       THEN {Move(from, t, q) : q \in PROMOTION_PIECES}
                       ELSE {Move(from, t, None)} : t \in pushes \cup captures}
      empty(files) == \A x \in files : b.pieces[square(x, r)] = NoPiece
      safe(files) == \A x \in files : ~is_attacked_by(b.pieces, ~b.turn, square(x, r))
      castling ==
        (IF square(7, r) \in b.castling_rights /\ empty({5, 6}) /\ safe({4, 5, 6})
           THEN {Move(from, square(6, r), None)} ELSE {})
        \cup
        (IF square(0, r) \in b.castling_rights /\ empty({1, 2, 3}) /\ safe({2, 3, 4})
           THEN {Move(from, square(2, r), None)} ELSE {})
  IN  IF p = NoPiece \/ piece_color(p) # b.turn THEN {}
      ELSE CASE piece_type(p) = PAWN -> pawn
             [] piece_type(p) = KNIGHT -> plain(StepSquares(f, r, KNIGHT_DELTAS))
             [] piece_type(p) = BISHOP -> plain(rays(BISHOP_DELTAS))
             [] piece_type(p) = ROOK -> plain(rays(ROOK_DELTAS))
             [] piece_type(p) = QUEEN -> plain(rays(ROOK_DELTAS \cup BISHOP_DELTAS))
             [] OTHER -> plain(StepSquares(f, r, KING_DELTAS)) \cup
                         (IF from = square(4, IF b.turn = WHITE THEN 0 ELSE 7)
                            THEN castling ELSE {})

\* The legal moves of the piece on `from`: the mover's king is not left attacked.
LegalFrom(b, from) ==
  {m \in PseudoLegalFrom(b, from) :
     LET after == PushPieces(b, m)
     IN  ~is_attacked_by(after, ~b.turn, king(after, b.turn))}

\* board.legal_moves
legal_moves(b) == UNION {LegalFrom(b, from) : from \in SQUARES}

\* move in board.legal_moves
is_legal(b, m) == m \in LegalFrom(b, m.from_square)

-----------------------------------------------------------------------------
(* The script: session state and handlers *)

\* Lines 41-56: the session state of a fresh session.
Init ==
  /\ board = NewBoard
  /\ move_history = <<>>
  /\ mode = "3D"
  /\ selected_square = None
  /\ camera_theta = 45
  /\ camera_phi = 45
  /\ camera_distance = 20
  /\ click_data = None
  /\ event = "init"
  /\ played = <<>>

\* get_legal_moves_for_square: the to-squares of the legal moves whose
\* from_square is `sq` (the script's list is only tested for membership).
get_legal_moves_for_square(b, sq) ==
  {m.to_square : m \in LegalFrom(b, sq)}

\* The move without the promotion test.
ClickMove_NoPromotion(b, sel, sq) == Move(sel, sq, None)

\* The move with a rook as the promotion piece.
ClickMove_PromotesToRook(b, sel, sq) ==
  LET piece == piece_at(b, sel)
  IN  IF /\ piece # NoPiece
         /\ piece_type(piece) = PAWN
         /\ \/ piece_color(piece) /\ square_rank(sq) = 7
            \/ ~piece_color(piece) /\ square_rank(sq) = 0
        THEN Move(sel, sq, ROOK)
        ELSE Move(sel, sq, None)

\* Lines 540-545: the move built for a click on `sq` with `sel` selected.
ClickMove(b, sel, sq) ==
  LET piece == piece_at(b, sel)
  IN  IF /\ piece # NoPiece
         /\ piece_type(piece) = PAWN
         /\ \/ piece_color(piece) /\ square_rank(sq) = 7
            \/ ~piece_color(piece) /\ square_rank(sq) = 0
        THEN Move(sel, sq, QUEEN)
        ELSE Move(sel, sq, None)

Camera == <<camera_theta, camera_phi, camera_distance>>

\* process_square_click that clears the selection where it should move it
\* to another piece of the side to move.
process_square_click_NoReselect(sq) ==
  LET own == piece_at(board, sq) # NoPiece /\ piece_color(piece_at(board, sq)) = board.turn
      move == ClickMove(board, selected_square, sq)
  IN  /\ UNCHANGED <<mode, Camera, click_data>>
      /\ IF selected_square # None
           THEN IF sq \in get_legal_moves_for_square(board, selected_square)
                  THEN IF is_legal(board, move)
                         THEN /\ board' = push(board, move)
                              /\ move_history' = Append(move_history, uci(move))
                              /\ selected_square' = None
                              /\ played' = Append(played, [position |-> Position(board),
                                                           move_history |-> move_history])
                              /\ event' = "click_move"
                         ELSE /\ UNCHANGED <<board, move_history, selected_square, played>>
                              /\ event' = "click_rejected"
                ELSE /\ selected_square' = None
                     /\ UNCHANGED <<board, move_history, played>>
                     /\ event' = "click_deselect"
           ELSE IF own
             THEN /\ selected_square' = sq
                  /\ UNCHANGED <<board, move_history, played>>
                  /\ event' = "click_select"
           ELSE /\ UNCHANGED <<board, move_history, selected_square, played>>
                /\ event' = "click_nothing"

\* process_square_click(square), lines 527-566.
process_square_click(sq) ==
  LET own == piece_at(board, sq) # NoPiece /\ piece_color(piece_at(board, sq)) = board.turn
      move == ClickMove(board, selected_square, sq)
  IN  /\ UNCHANGED <<mode, Camera, click_data>>
      /\ IF selected_square # None
           THEN IF sq \in get_legal_moves_for_square(board, selected_square)
                  THEN IF is_legal(board, move)
                         THEN /\ board' = push(board, move)
                              /\ move_history' = Append(move_history, uci(move))
                              /\ selected_square' = None
                              /\ played' = Append(played, [position |-> Position(board),
                                                           move_history |-> move_history])
                              /\ event' = "click_move"
                         ELSE /\ UNCHANGED <<board, move_history, selected_square, played>>
                              /\ event' = "click_rejected"
                ELSE IF own
                  THEN /\ selected_square' = sq
                       /\ UNCHANGED <<board, move_history, played>>
                       /\ event' = "click_reselect"
                ELSE /\ selected_square' = None
                     /\ UNCHANGED <<board, move_history, played>>
                     /\ event' = "click_deselect"
           ELSE IF own
             THEN /\ selected_square' = sq
                  /\ UNCHANGED <<board, move_history, played>>
                  /\ event' = "click_select"
           ELSE /\ UNCHANGED <<board, move_history, selected_square, played>>
                /\ event' = "click_nothing"

\* int(x) of a coordinate given in halves: Python truncates toward zero.
PyInt(halves) == IF halves >= 0 THEN halves \div 2 ELSE 0 - ((0 - halves) \div 2)

\* The range test with file <= 8 in place of file < 8.
ResolveSquare_FileOffByOne(m, point) ==
  IF m = "2D"
    THEN IF point.has_xy /\ PyInt(point.x) \in 0 .. 8 /\ PyInt(point.y) \in 0 .. 7
           THEN square(PyInt(point.x), PyInt(point.y))
           ELSE None
  ELSE IF m = "3D"
    THEN IF point.hovertext # "" /\ Len(point.hovertext) = 2 /\ IsSquareName(point.hovertext)
           THEN parse_square(point.hovertext)
           ELSE None
  ELSE None

\* Lines 505-523: the square a selected point resolves to, or None when the
\* point is dropped (no coordinates, out of range, not a square name).
ResolveSquare(m, point) ==
  IF m = "2D"
    THEN IF point.has_xy /\ PyInt(point.x) \in 0 .. 7 /\ PyInt(point.y) \in 0 .. 7
           THEN square(PyInt(point.x), PyInt(point.y))
           ELSE None
  ELSE IF m = "3D"
    THEN IF point.hovertext # "" /\ Len(point.hovertext) = 2 /\ IsSquareName(point.hovertext)
           THEN parse_square(point.hovertext)
           ELSE None
  ELSE None

\* handle_click(click_data), lines 491-525, for a selection of one point.
handle_click(point) ==
  IF ResolveSquare(mode, point) # None
    THEN process_square_click(ResolveSquare(mode, point))
    ELSE /\ UNCHANGED <<session, played>>
         /\ event' = "click_dropped"

\* A mode switch that keeps the selection.
SetMode_KeepsSelection(m) ==
  /\ mode' = m
  /\ UNCHANGED <<board, move_history, selected_square, Camera, click_data, played>>
  /\ event' = m

\* A mode switch that puts the camera back to its first pose.
SetMode_ResetsCamera(m) ==
  /\ mode' = m
  /\ selected_square' = None
  /\ camera_theta' = 45
  /\ camera_phi' = 45
  /\ camera_distance' = 20
  /\ UNCHANGED <<board, move_history, click_data, played>>
  /\ event' = m

\* Lines 576-579 and 581-584: the 2D and 3D buttons.
SetMode(m) ==
  /\ mode' = m
  /\ selected_square' = None
  /\ UNCHANGED <<board, move_history, Camera, click_data, played>>
  /\ event' = m

\* NEW that forgets to empty the history.
BtnNEW_KeepsHistory ==
  /\ board' = NewBoard
  /\ selected_square' = None
  /\ played' = <<>>
  /\ UNCHANGED <<mode, Camera, click_data, move_history>>
  /\ event' = "NEW"

\* Lines 591-595: NEW.
BtnNEW ==
  /\ board' = NewBoard
  /\ move_history' = <<>>
  /\ selected_square' = None
  /\ played' = <<>>
  /\ UNCHANGED <<mode, Camera, click_data>>
  /\ event' = "NEW"

\* list.pop() of a non-empty list.
ListPop(l) == SubSeq(l, 1, Len(l) - 1)

\* UNDO that leaves the selection in place.
BtnUNDO_KeepsSelection ==
  /\ UNCHANGED <<mode, Camera, click_data, selected_square>>
  /\ IF Len(board.move_stack) > 0
       THEN /\ board' = pop(board)
            /\ move_history' = IF move_history # <<>> THEN ListPop(move_history)
                               ELSE move_history
            /\ played' = ListPop(played)
            /\ event' = "UNDO"
       ELSE /\ UNCHANGED <<board, move_history, played>>
            /\ event' = "UNDO_ignored"

\* UNDO that retracts the ply and forgets to pop the history.
BtnUNDO_KeepsHistory ==
  /\ UNCHANGED <<mode, Camera, click_data, move_history>>
  /\ IF Len(board.move_stack) > 0
       THEN /\ board' = pop(board)
            /\ selected_square' = None
            /\ played' = ListPop(played)
            /\ event' = "UNDO"
       ELSE /\ UNCHANGED <<board, selected_square, played>>
            /\ event' = "UNDO_ignored"

\* Lines 597-603: UNDO.
BtnUNDO ==
  /\ UNCHANGED <<mode, Camera, click_data>>
  /\ IF Len(board.move_stack) > 0
       THEN /\ board' = pop(board)
            /\ move_history' = IF move_history # <<>> THEN ListPop(move_history)
                               ELSE move_history
            /\ selected_square' = None
            /\ played' = ListPop(played)
            /\ event' = "UNDO"
       ELSE /\ UNCHANGED <<board, move_history, selected_square, played>>
            /\ event' = "UNDO_ignored"

Max(a, b) == IF a >= b THEN a ELSE b
Min(a, b) == IF a <= b THEN a ELSE b

\* The elevation button "up" without the lower limit.
cam_up_NoClamp ==
  /\ mode = "3D"
  /\ camera_phi' = camera_phi - 10
  /\ UNCHANGED <<board, move_history, mode, selected_square, camera_theta,
                 camera_distance, click_data, played>>
  /\ event' = "cam_up"

\* Lines 625-627: the elevation button "up".
cam_up ==
  /\ mode = "3D"
  /\ camera_phi' = Max(10, camera_phi - 10)
  /\ UNCHANGED <<board, move_history, mode, selected_square, camera_theta,
                 camera_distance, click_data, played>>
  /\ event' = "cam_up"

\* Lines 630-632: the elevation button "down".
cam_down ==
  /\ mode = "3D"
  /\ camera_phi' = Min(80, camera_phi + 10)
  /\ UNCHANGED <<board, move_history, mode, selected_square, camera_theta,
                 camera_distance, click_data, played>>
  /\ event' = "cam_down"

\* Lines 635-637: the azimuth button "left".
cam_left ==
  /\ mode = "3D"
  /\ camera_theta' = (camera_theta - 15) % 360
  /\ UNCHANGED <<board, move_history, mode, selected_square, camera_phi,
                 camera_distance, click_data, played>>
  /\ event' = "cam_left"

\* Lines 640-642: the azimuth button "right".
cam_right ==
  /\ mode = "3D"
  /\ camera_theta' = (camera_theta + 15) % 360
  /\ UNCHANGED <<board, move_history, mode, selected_square, camera_phi,
                 camera_distance, click_data, played>>
  /\ event' = "cam_right"

\* Lines 645-647: "+". camera_distance is held in tenths (2.0 is 20, the
\* step 0.2 is 2, the limits 1.2 and 3.5 are 12 and 35).
zoom_in ==
  /\ mode = "3D"
  /\ camera_distance' = Max(12, camera_distance - 2)
  /\ UNCHANGED <<board, move_history, mode, selected_square, camera_theta,
                 camera_phi, click_data, played>>
  /\ event' = "zoom_in"

\* Lines 650-652: "-".
zoom_out ==
  /\ mode = "3D"
  /\ camera_distance' = Min(35, camera_distance + 2)
  /\ UNCHANGED <<board, move_history, mode, selected_square, camera_theta,
                 camera_phi, click_data, played>>
  /\ event' = "zoom_out"

\* board.is_check() (line 665): the king of the side to move is attacked.
is_check(b) == is_attacked_by(b.pieces, ~b.turn, king(b.pieces, b.turn))

\* board.is_checkmate() (line 660): in check and without a legal move.
is_checkmate(b) == is_check(b) /\ legal_moves(b) = {}

\* board.is_stalemate() (line 663): not in check and without a legal move.
is_stalemate(b) == ~is_check(b) /\ legal_moves(b) = {}

\* The status panel that tests check before checkmate and stalemate.
status_panel_CheckFirst(b) ==
  IF is_check(b) THEN <<"CHECK">>
  ELSE IF is_checkmate(b)
    THEN <<IF b.turn THEN "BLACK WINS" ELSE "WHITE WINS">>
  ELSE IF is_stalemate(b) THEN <<"DRAW">>
  ELSE <<>>

\* Lines 660-666: the status lines written below the side to move, in the
\* order of the st.markdown calls.
status_panel(b) ==
  IF is_checkmate(b)
    THEN <<IF b.turn THEN "BLACK WINS" ELSE "WHITE WINS">>
  ELSE IF is_stalemate(b) THEN <<"DRAW">>
  ELSE IF is_check(b) THEN <<"CHECK">>
  ELSE <<>>

\* The history panel with the two columns exchanged.
history_panel_BlackFirst(h) ==
  [k \in 1 .. ((Len(h) + 1) \div 2) |->
     [move_num |-> k,
      white_move |-> IF 2 * k <= Len(h) THEN h[2 * k] ELSE "",
      black_move |-> h[2 * k - 1]]]

\* Lines 671-677: the rows of the history panel; row k is built from the
\* 0-based indices i = 2(k-1) and i + 1 of move_history.
history_panel(h) ==
  [k \in 1 .. ((Len(h) + 1) \div 2) |->
     [move_num |-> k,
      white_move |-> h[2 * k - 1],
      black_move |-> IF 2 * k <= Len(h) THEN h[2 * k] ELSE ""]]

-----------------------------------------------------------------------------
(* The events a user can send *)

\* The squares the modelled user clicks: the a-pawn's way to promotion
\* (a2-a4-a5-a6xb7, then xa8 or xc8), a black knight's tempo moves (g8-f6-g8)
\* and a white piece that has no move among them (b1).
ClickSquares ==
  {parse_square(n) : n \in {"a2", "a4", "a5", "a6", "b7", "a8", "c8", "g8", "f6", "b1"}}

\* Coordinates (in halves) next to the board's edge: -1.5, -0.5, 8.0, 8.5.
StrayCoords == {0 - 3, 0 - 1, 16, 17}

Point2D(x, y) == [has_xy |-> TRUE, x |-> x, y |-> y, hovertext |-> ""]
PointHover(text) == [has_xy |-> FALSE, x |-> 0, y |-> 0, hovertext |-> text]

\* Lines 607-609: in 2D mode the chart is the 2D board, whose scatter points
\* sit on the middle of their squares (file + 0.5, rank + 0.5); besides them,
\* points next to the edge and a point without coordinates.
Points2D ==
  {Point2D(2 * square_file(sq) + 1, 2 * square_rank(sq) + 1) : sq \in ClickSquares}
    \cup {Point2D(x, 3) : x \in StrayCoords} \cup {Point2D(1, y) : y \in StrayCoords}
    \cup {PointHover("a2")}

BadNames == {"", "e", "e22", "i1", "a9", "E2"}

\* Lines 613-614: in 3D mode the chart is the 3D board, whose mesh points
\* carry the square's name as hover text; besides them, texts that name no square.
PointsHover ==
  {PointHover(square_name(sq)) : sq \in ClickSquares} \cup {PointHover(n) : n \in BadNames}

\* The points a user can select on the chart that mode m displays.
PointsOf(m) == IF m = "2D" THEN Points2D ELSE PointsHover

\* Lines 605-616: a selection on the board chart, with the bound on the plies.
ChartSelect(point, cap) ==
  /\ handle_click(point)
  /\ Len(board'.move_stack) <= cap

Click == \E point \in PointsOf(mode) : ChartSelect(point, MaxPlies)

\* The points clicked in the camera specification: a square with a piece that
\* can move, its destination, and a point that is dropped.
CamPointsOf(m) ==
  IF m = "2D" THEN {Point2D(1, 3), Point2D(1, 7), Point2D(17, 3)}
  ELSE {PointHover("a2"), PointHover("a4"), PointHover("i1")}

CamClick == \E point \in CamPointsOf(mode) : ChartSelect(point, MaxCamPlies)
\* Two games a user plays to their end, as (from, to) square names: the
\* shortest checkmate and the shortest stalemate (with a check on its way).
FoolsMate == <<<<"f2", "f3">>, <<"e7", "e5">>, <<"g2", "g4">>, <<"d8", "h4">>>>
QuickStalemate ==
  <<<<"e2", "e3">>, <<"a7", "a5">>, <<"d1", "h5">>, <<"a8", "a6">>, <<"h5", "a5">>,
    <<"h7", "h5">>, <<"h2", "h4">>, <<"a6", "h6">>, <<"a5", "c7">>, <<"f7", "f6">>,
    <<"c7", "d7">>, <<"e8", "f7">>, <<"d7", "b7">>, <<"d8", "d3">>, <<"b7", "b8">>,
    <<"d3", "h7">>, <<"b8", "c8">>, <<"f7", "g6">>, <<"c8", "e6">>>>
Lines == {FoolsMate, QuickStalemate}

\* The move stack follows one of the games.
OnLine(stack) ==
  \E l \in Lines :
    /\ Len(stack) <= Len(l)
    /\ \A i \in 1 .. Len(stack) :
         /\ square_name(stack[i].from_square) = l[i][1]
         /\ square_name(stack[i].to_square) = l[i][2]

\* The squares the games touch.
StatusSquares ==
  UNION {UNION {{parse_square(l[i][1]), parse_square(l[i][2])} : i \in 1 .. Len(l)} :
           l \in Lines}

StatusPointsOf(m) ==
  IF m = "2D"
    THEN {Point2D(2 * square_file(sq) + 1, 2 * square_rank(sq) + 1) : sq \in StatusSquares}
           \cup {Point2D(17, 3)}
    ELSE {PointHover(square_name(sq)) : sq \in StatusSquares} \cup {PointHover("i1")}

\* Lines 605-616: a selection on the board chart by a user who plays the games.
StatusClick ==
  \E point \in StatusPointsOf(mode) :
    /\ handle_click(point)
    /\ OnLine(board'.move_stack)

Btn2D == SetMode("2D")
Btn3D == SetMode("3D")

NextGame == Click \/ Btn2D \/ Btn3D \/ BtnNEW \/ BtnUNDO

NextCamera ==
  \/ cam_up \/ cam_down \/ cam_left \/ cam_right \/ zoom_in \/ zoom_out
  \/ Btn2D \/ Btn3D \/ BtnNEW \/ BtnUNDO \/ CamClick

Next ==
  \/ NextGame
  \/ cam_up \/ cam_down \/ cam_left \/ cam_right \/ zoom_in \/ zoom_out

Spec == Init /\ [][Next]_vars
SpecGame == Init /\ [][NextGame]_vars
SpecCamera == Init /\ [][NextCamera]_vars

NextStatus == StatusClick \/ Btn2D \/ Btn3D \/ BtnNEW \/ BtnUNDO
SpecStatus == Init /\ [][NextStatus]_vars

-----------------------------------------------------------------------------
(* Properties *)

Last(l) == l[Len(l)]

\* The square holds a piece of the side to move.
OwnPieceOn(b, sq) == piece_at(b, sq) # NoPiece /\ piece_color(piece_at(b, sq)) = b.turn

\* C1: in every reachable state selected_square is None or names a square
\* that holds a piece of the side to move.
C1_SelectionIsOwnPiece ==
  selected_square = None \/ OwnPieceOn(board, selected_square)

\* A black piece is selected after White's move.
C1_Witness ==
  /\ selected_square # None
  /\ board.turn = BLACK
  /\ Len(board.move_stack) > 0

\* C2: in every reachable state move_history is as long as the move stack of
\* the board (the plies applied since the last reset).
C2_HistoryLengthIsPlies ==
  Len(move_history) = Len(board.move_stack)

\* An undo has removed one entry of several.
C2_Witness ==
  /\ event = "UNDO"
  /\ Len(move_history) >= 2
  /\ Len(board.move_stack) >= 2

\* C4: an UNDO with at least one move applied retracts exactly the last ply
\* and pops exactly the last history entry: the position and the history are
\* those that held before that move.
C4_UndoRestores ==
  [][(BtnUNDO /\ Len(board.move_stack) > 0) =>
       /\ Position(board') = Last(played).position
       /\ move_history' = Last(played).move_history
       /\ board'.move_stack = SubSeq(board.move_stack, 1, Len(board.move_stack) - 1)
       /\ Len(move_history') = Len(move_history) - 1]_vars

\* After one move and UNDO: the start position and an empty history.
C4_Witness ==
  /\ event = "UNDO"
  /\ Position(board) = Position(NewBoard)
  /\ move_history = <<>>

\* The point is one the script ignores: in 2D it has no coordinates or lies
\* outside the 8x8 index space, in 3D its hover text is no square name.
Ignored(point) ==
  \/ mode = "2D" /\ ~point.has_xy
  \/ mode = "2D" /\ (PyInt(point.x) \notin 0 .. 7 \/ PyInt(point.y) \notin 0 .. 7)
  \/ mode = "3D" /\ point.hovertext \notin SquareNameSet

\* C5: an UNDO with no move played, and a click that resolves outside the
\* board or to no square name, leave the whole session state unchanged.
C5_IgnoredInputsAreNoOps ==
  [][/\ (Len(board.move_stack) = 0 /\ BtnUNDO) => UNCHANGED session
     /\ \A point \in PointsOf(mode) :
          (Ignored(point) /\ ChartSelect(point, MaxPlies)) => UNCHANGED session]_vars

\* An UNDO was ignored while a square was selected.
C5_Witness ==
  /\ event = "UNDO_ignored"
  /\ selected_square # None
  /\ mode = "2D"

\* C6: a click on a legal destination T of the selected square S applies one
\* ply from S to T, records its notation last, hands over the turn and
\* clears the selection.
C6_ClickToMove ==
  [][selected_square # None =>
       \A T \in {l.to_square : l \in LegalFrom(board, selected_square)} :
         \A point \in PointsOf(mode) :
           (ResolveSquare(mode, point) = T /\ ChartSelect(point, MaxPlies))
           => LET m == Last(board'.move_stack)
              IN  /\ Len(board'.move_stack) = Len(board.move_stack) + 1
                  /\ m.from_square = selected_square
                  /\ m.to_square = T
                  /\ m \in legal_moves(board)
                  /\ board' = push(board, m)
                  /\ move_history' = Append(move_history, uci(m))
                  /\ board'.turn # board.turn
                  /\ selected_square' = None]_vars

\* A capture was applied by a click.
C6_Witness ==
  /\ event = "click_move"
  /\ Last(move_history) = "a6b7"
  /\ selected_square = None

C8_AlwaysCleared ==
  [][/\ (BtnUNDO \/ BtnNEW \/ Btn2D \/ Btn3D) => selected_square' = None
     /\ selected_square # None =>
          \A dests \in {get_legal_moves_for_square(board, selected_square)} :
            \A point \in PointsOf(mode) :
              LET T == ResolveSquare(mode, point)
              IN  (/\ T # None
                   /\ T \in dests \/ ~OwnPieceOn(board, T)
                   /\ ChartSelect(point, MaxPlies))
                  => selected_square' = None]_vars

\* C8 (amended): the selection is empty after a successful move, after a
\* click, while a square is selected, on a square of the board that is
\* neither a legal destination nor holds a piece of the side to move, after a
\* mode switch, after an UNDO requested with at least one move played, and
\* after NEW.
C8_SelectionCleared ==
  [][/\ (BtnUNDO /\ Len(board.move_stack) > 0) => selected_square' = None
     /\ (BtnNEW \/ Btn2D \/ Btn3D) => selected_square' = None
     /\ selected_square # None =>
          \/ selected_square' = None
          \/ \A dests \in {get_legal_moves_for_square(board, selected_square)} :
               \A point \in PointsOf(mode) :
                 LET T == ResolveSquare(mode, point)
                 IN  ~(/\ T # None
                       /\ T \in dests \/ ~OwnPieceOn(board, T)
                       /\ ChartSelect(point, MaxPlies))]_vars

\* A click on a square that is no destination and holds no own piece has
\* cleared the selection.
C8_Witness ==
  /\ event = "click_deselect"
  /\ selected_square = None
  /\ Len(board.move_stack) > 0

\* C9: a mode switch sets the mode and clears the selection, and leaves the
\* board, the history and the three camera fields unchanged.
C9_ModeSwitchFrame ==
  [][\A m \in {"2D", "3D"} :
       SetMode(m) =>
         /\ mode' = m
         /\ selected_square' = None
         /\ board' = board
         /\ move_history' = move_history
         /\ camera_theta' = camera_theta
         /\ camera_phi' = camera_phi
         /\ camera_distance' = camera_distance]_vars

\* The 2D button was pressed with a move played and the camera moved.
C9_Witness ==
  /\ event = "2D"
  /\ mode = "2D"
  /\ Len(move_history) = 1
  /\ camera_theta # 45
  /\ camera_phi # 45
  /\ camera_distance # 20

\* C10: the camera stays in range (elevation 10..80, azimuth 0..359, distance
\* 1.2..3.5 in tenths), every change is one step of 10, 15 (modulo 360) or
\* 0.2 or a step cut at the limit, and nothing changes the camera in 2D mode.
C10_CameraInRange ==
  [][/\ camera_phi \in 10 .. 80 /\ camera_phi' \in 10 .. 80
     /\ camera_theta \in 0 .. 359 /\ camera_theta' \in 0 .. 359
     /\ camera_distance \in 12 .. 35 /\ camera_distance' \in 12 .. 35
     /\ \/ camera_phi' - camera_phi \in {0 - 10, 0, 10}
        \/ camera_phi' = 10 /\ camera_phi < 20
        \/ camera_phi' = 80 /\ camera_phi > 70
     /\ (camera_theta' - camera_theta) % 360 \in {345, 0, 15}
     /\ \/ camera_distance' - camera_distance \in {0 - 2, 0, 2}
        \/ camera_distance' = 12 /\ camera_distance < 14
        \/ camera_distance' = 35 /\ camera_distance > 33
     /\ mode = "2D" => UNCHANGED Camera]_vars

\* The camera was moved to its limits and over the wrap of the azimuth.
C10_Witness ==
  /\ camera_phi = 10
  /\ camera_distance = 35
  /\ camera_theta = 345
  /\ event = "cam_up"

\* C11: the status lines depend on the position alone and are found by testing
\* checkmate, then stalemate, then check: at most one line is written (none
\* is the normal status), a king in check without a legal move gives the
\* win of the other side and neither CHECK nor DRAW, no check and no legal
\* move gives DRAW, a check with a legal move gives CHECK.
C11_StatusPriority ==
  LET report == status_panel(board)
      attacked == is_attacked_by(board.pieces, ~board.turn, king(board.pieces, board.turn))
      stuck == \A sq \in SQUARES : LegalFrom(board, sq) = {}
      bare == [board EXCEPT !.move_stack = <<>>, !.stack = <<>>]
  IN  /\ Len(report) <= 1
      /\ report = status_panel(bare)
      /\ (attacked /\ stuck) =>
           /\ report = <<IF board.turn = WHITE THEN "BLACK WINS" ELSE "WHITE WINS">>
           /\ \A i \in 1 .. Len(report) : report[i] \notin {"CHECK", "DRAW"}
      /\ (~attacked /\ stuck) => report = <<"DRAW">>
      /\ (attacked /\ ~stuck) => report = <<"CHECK">>
      /\ (~attacked /\ ~stuck) => report = <<>>

\* A checkmate is on the board and the win is reported.
C11_Witness ==
  /\ is_checkmate(board)
  /\ status_panel(board) = <<"BLACK WINS">>
  /\ Len(board.move_stack) = 4

\* C12: the history panel pairs the moves by move number: the white entry of
\* row k is the k-th move made by a white piece and the black entry the k-th
\* move made by a black piece (empty when Black has not yet answered), and
\* White is to move exactly when the history has an even length.
C12_HistoryPairs ==
  LET n == Len(board.move_stack)
      rows == history_panel(move_history)
      mover(i) == piece_color(played[i].position.pieces[board.move_stack[i].from_square])
      nth(c, i) == Cardinality({j \in 1 .. i : mover(j) = c})
  IN  /\ Len(move_history) = n
      /\ (board.turn = WHITE) <=> (Len(move_history) % 2 = 0)
      /\ Len(rows) = Cardinality({j \in 1 .. n : mover(j) = WHITE})
      /\ \A i \in 1 .. n :
           IF mover(i) = WHITE
             THEN /\ move_history[i] = uci(board.move_stack[i])
                  /\ rows[nth(WHITE, i)].move_num = nth(WHITE, i)
                  /\ rows[nth(WHITE, i)].white_move = uci(board.move_stack[i])
             ELSE /\ move_history[i] = uci(board.move_stack[i])
                  /\ rows[nth(BLACK, i)].black_move = uci(board.move_stack[i])
      /\ \A k \in 1 .. Len(rows) :
           Cardinality({j \in 1 .. n : mover(j) = BLACK}) < k => rows[k].black_move = ""

\* After moves and an UNDO three plies stand: White's second move waits for
\* Black's answer.
C12_Witness ==
  /\ event = "UNDO"
  /\ Len(move_history) = 3
  /\ board.turn = BLACK
  /\ history_panel(move_history)[2].white_move = uci(board.move_stack[3])
  /\ history_panel(move_history)[2].black_move = ""

\* C13: a click on a square of the board that is no legal destination of the
\* selection (any square when nothing is selected) changes neither the board
\* nor the history, and leaves the clicked square selected when it holds a
\* piece of the side to move and no square selected otherwise; with nothing
\* selected and no such piece on the square no field of the session changes.
C13_NonDestinationClick ==
  [][\A dests \in {IF selected_square # None
                     THEN get_legal_moves_for_square(board, selected_square)
                     ELSE {}} :
       \A point \in PointsOf(mode) :
         LET T == ResolveSquare(mode, point)
             framed == /\ board' = board
                       /\ move_history' = move_history
                       /\ selected_square' = (IF OwnPieceOn(board, T) THEN T ELSE None)
                       /\ (selected_square = None /\ ~OwnPieceOn(board, T))
                            => UNCHANGED session
         IN  (T # None /\ T \notin dests)
             => (framed \/ ~ChartSelect(point, MaxPlies))]_vars

\* With a square selected after a move, a click on another piece of the side
\* to move has moved the selection there.
C13_Witness ==
  /\ event = "click_reselect"
  /\ selected_square # None
  /\ OwnPieceOn(board, selected_square)
  /\ Len(board.move_stack) > 0

====
